---- MODULE Spec2Model ----
(***************************************************************************)
(* express-zod-contract: the request handler built by contract() and the   *)
(* process-wide logger slot set by defineLogger() (src/src/index.ts).      *)
(*                                                                         *)
(* A text is a sequence of fragments; the characters of the issue          *)
(* separator ";;;" are kept as single fragments so that String.split is    *)
(* modelled by what it does.                                               *)
(***************************************************************************)
EXTENDS Integers, Sequences, FiniteSets, TLC

\* ------------------------------------------------------------------ bounds

\* ctx.log calls one handler run makes at most
MaxLogs == 2

\* the requests handled by the one adapter: one, or two handled concurrently
OneRequest == {"r1"}
TwoRequests == {"r1", "r2"}

\* ------------------------------------------------------------ value domains

Null == "null"

\* raw req.query / req.params / req.body
RawValues == {"raw1", "raw2"}

\* what a configured schema returns for them when it accepts (a schema may
\* strip, coerce or default, so the value is not the raw one)
ParsedValues == {"parsed"}

\* raw req.headers: ordered key/value entries, each value a string or not
StringHeaders == << [key |-> "host", type |-> "string"] >>
MixedHeaders ==
  << [key |-> "host", type |-> "string"],
     [key |-> "x-n", type |-> "number"],
     [key |-> "set-cookie", type |-> "array"] >>

RawRequest(q, p, b, h) == [query |-> q, params |-> p, body |-> b, headers |-> h]

\* the requests express hands to the handler
RawRequests ==
  { RawRequest("raw1", "raw2", "raw1", StringHeaders),
    RawRequest("raw2", "raw1", "raw2", MixedHeaders) }

\* what a configured headers schema may return
ParsedHeaders == { << [key |-> "accept", type |-> "string"] >> }

\* values a handler may return
Results == {"A", "B"}

\* messages given to ctx.error / new ContractError
Messages == { <<"bad input">>, <<"a", ";", ";", ";", "b">> }

\* codes given to ctx.error; Omitted stands for a call without the argument
Omitted == -1
Codes == {422, 500}

\* the functions given to defineLogger
Sinks == {"sinkA", "sinkB"}
Unset == "undefined"

\* log events given to ctx.log
LogEvents ==
  { [level |-> "info", message |-> "m1", tags |-> <<"abc">>],
    [level |-> "error", message |-> "m2", tags |-> <<>>] }

\* issues of a ZodError: message and (possibly empty) path
Issue(msg, path) == [message |-> msg, path |-> path]
IssueLists ==
  { << Issue(<<"Required">>, "id") >>,
    << Issue(<<"Invalid">>, ""), Issue(<<"Too long">>, "name") >>,
    << Issue(<<"a", ";", ";", ";", "b">>, "id") >> }

\* ------------------------------------------------------------- exceptions

NoError == [kind |-> "none"]
ZodError(issues) == [kind |-> "zod", issues |-> issues]
\* src/src/index.ts:53-57
ContractError(message, code) == [kind |-> "contract", message |-> message, code |-> code]
OtherError(name) == [kind |-> "other", name |-> name]
\* a thrown or rejected null / undefined: reading .stack of it raises TypeError
Nullish == [kind |-> "nullish"]
TypeError == OtherError("TypeError")

\* what a handler may throw or reject with
Thrown ==
  { OtherError("boom"), Nullish, ZodError(<< Issue(<<"Required">>, "id") >>) }
    \cup { ContractError(m, 500) : m \in Messages }

\* what a hook or a sink may throw or reject with where only being null or
\* undefined makes a difference
Failures == { OtherError("failed"), Nullish }

\* what beforeResponse may throw before it returns a promise
HookThrown ==
  Failures \cup { ZodError(<< Issue(<<"Required">>, "id") >>),
                  ContractError(<<"bad input">>, 422) }

\* ------------------------------------------------------------------- texts

\* src/src/index.ts:107, 111 (the issueSeparator option and the split argument)
Separator == <<";", ";", ";">>

IsPrefix(p, s) == Len(p) <= Len(s) /\ SubSeq(s, 1, Len(p)) = p

\* String.prototype.split(Separator): the pieces between the leftmost,
\* non-overlapping occurrences of the separator
RECURSIVE SplitFrom(_, _)
SplitFrom(s, piece) ==
  IF s = <<>> THEN << piece >>
  ELSE IF IsPrefix(Separator, s)
       THEN << piece >> \o SplitFrom(SubSeq(s, Len(Separator) + 1, Len(s)), <<>>)
       ELSE SplitFrom(Tail(s), Append(piece, Head(s)))

Split(s) == SplitFrom(s, <<>>)

\* Array.prototype.join
RECURSIVE Join(_, _)
Join(texts, sep) ==
  IF texts = <<>> THEN <<>>
  ELSE IF Len(texts) = 1 THEN Head(texts)
       ELSE Head(texts) \o sep \o Join(Tail(texts), sep)

\* zod-validation-error: one issue as text, `message at "path"`
IssueText(issue) ==
  IF issue.path = "" THEN issue.message
  ELSE issue.message \o <<" at \"", issue.path, "\"">>

\* fromZodError(error, { issueSeparator: ";;;" }).message
FromZodError(error) ==
  LET reason == Join([i \in 1..Len(error.issues) |-> IssueText(error.issues[i])], Separator)
  IN  IF reason = <<>> THEN <<"Validation error">>
      ELSE <<"Validation error">> \o <<": ">> \o reason

\* z.record(z.string()).parse(headers): one invalid_type issue per entry whose
\* value is not a string, in entry order
RECURSIVE RecordOfStringIssues(_)
RecordOfStringIssues(headers) ==
  IF headers = <<>> THEN <<>>
  ELSE (IF Head(headers).type = "string" THEN <<>>
        ELSE << Issue(<<"Expected string, received ", Head(headers).type>>, Head(headers).key) >>)
       \o RecordOfStringIssues(Tail(headers))

\* --------------------------------------------------------------- envelopes

Envelope(ok, data, errors) == [ok |-> ok, data |-> data, errors |-> errors]

SuccessEnvelope(data) == Envelope(TRUE, data, <<>>)

ValidationEnvelope(error) == Envelope(FALSE, Null, Split(FromZodError(error)))

\* ContractErrorEnvelope with the code put into the response
ContractErrorEnvelope_WithCode(error) ==
  [ok |-> FALSE, data |-> Null, errors |-> << error.message >>, code |-> error.code]

ContractErrorEnvelope(error) == Envelope(FALSE, Null, << error.message >>)

\* UnexpectedEnvelope with the message left out
UnexpectedEnvelope_NoMessage == Envelope(FALSE, Null, <<>>)

UnexpectedEnvelope == Envelope(FALSE, Null, << <<"Something went wrong">> >>)

\* the default of ctx.error's second parameter
DefaultCode == 400

\* ------------------------------------------------------------------- state

VARIABLES
  logger,         \* $contractContext.logger
  configured,     \* the argument of the latest defineLogger call
  contractInput,  \* which optional members the contract given to contract() has
  pc,             \* where each request's async handler stands
  req,            \* the raw request
  inputs,         \* query, params, body, headers as parsed so far
  logs,           \* the request's logs array
  data,           \* the handler's result
  error,          \* the exception bound by the catch clause
  pending,        \* the exception leaving the try statement
  events          \* per request, what happened so far, in order: the calls made
                  \* and how the called code returned

vars == <<logger, configured, contractInput, pc, req, inputs, logs, data, error, pending, events>>

\* the requests the handler has been or will be called with
Requests == DOMAIN pc

Channels == <<"query", "params", "body", "headers">>
\* the optional members of the contract that the returned handler reads
\* (contract.result is declared for type inference and read nowhere)
Members == {"query", "params", "body", "headers", "onUnexpectedError", "beforeResponse"}

Event(op, arg) == [op |-> op, arg |-> arg]

\* what a parse call was given and how it ended
ParseCall(raw, result, issues) == [raw |-> raw, result |-> result, issues |-> issues]

\* what happened is appended to the request's record
Emit(r, happened) == events' = [events EXCEPT ![r] = @ \o happened]

NoRequest == [query |-> Null, params |-> Null, body |-> Null, headers |-> <<>>]

\* the state once the module is loaded and contract() has built the handler,
\* before any of the requests in rs
Loaded(rs) ==
  /\ logger = Unset
  /\ configured = Unset
  /\ pc = [r \in rs |-> "idle"]
  /\ req = [r \in rs |-> NoRequest]
  /\ inputs = [r \in rs |-> NoRequest]
  /\ logs = [r \in rs |-> <<>>]
  /\ data = [r \in rs |-> Null]
  /\ error = [r \in rs |-> NoError]
  /\ pending = [r \in rs |-> NoError]
  /\ events = [r \in rs |-> <<>>]

Init ==
  /\ contractInput \in [Members -> BOOLEAN]
  /\ Loaded(OneRequest)

\* ------------------------------------------------------------ defineLogger

\* defineLogger that keeps a logger already set
DefineLogger_KeepFirst(fn) ==
  /\ logger' = (IF logger = Unset THEN fn ELSE logger)
  /\ configured' = fn
  /\ UNCHANGED <<contractInput, pc, req, inputs, logs, data, error, pending, events>>

DefineLogger(fn) ==
  /\ logger' = fn
  /\ configured' = fn
  /\ UNCHANGED <<contractInput, pc, req, inputs, logs, data, error, pending, events>>

\* --------------------------------------------------- the request handler

\* express calls the handler with a request
Request(r) ==
  /\ pc[r] = "idle"
  /\ \E raw \in RawRequests : req' = [req EXCEPT ![r] = raw]
  /\ pc' = [pc EXCEPT ![r] = "query"]
  /\ UNCHANGED <<logger, configured, contractInput, inputs, logs, data, error, pending, events>>

\* AfterChannel with body parsed before params
AfterChannel_BodyBeforeParams(ch) ==
  CASE ch = "query" -> "body"
    [] ch = "body" -> "params"
    [] ch = "params" -> "headers"
    [] ch = "headers" -> "handler"

\* the statement after the one that parses channel ch
AfterChannel(ch) ==
  CASE ch = "query" -> "params"
    [] ch = "params" -> "body"
    [] ch = "body" -> "headers"
    [] ch = "headers" -> "handler"

\* a parse by validator op of raw that returned v
Parsed(r, ch, op, raw, v) ==
  /\ Emit(r, << Event(op, ParseCall(raw, "ok", <<>>)) >>)
  /\ inputs' = [inputs EXCEPT ![r][ch] = v]
  /\ pc' = [pc EXCEPT ![r] = AfterChannel(ch)]
  /\ UNCHANGED error

\* ParseThrew with the failure ignored (the result of a safeParse never
\* looked at): the raw value is used and the next statement runs
ParseThrew_Ignored(r, op, raw, issues) ==
  /\ Emit(r, << Event(op, ParseCall(raw, "ZodError", issues)) >>)
  /\ inputs' = [inputs EXCEPT ![r][pc[r]] = raw]
  /\ pc' = [pc EXCEPT ![r] = AfterChannel(pc[r])]
  /\ UNCHANGED error

\* a parse by validator op of raw that threw a ZodError with these issues
ParseThrew(r, op, raw, issues) ==
  /\ Emit(r, << Event(op, ParseCall(raw, "ZodError", issues)) >>)
  /\ error' = [error EXCEPT ![r] = ZodError(issues)]
  /\ pc' = [pc EXCEPT ![r] = "catch"]
  /\ UNCHANGED inputs

\* PassThrough with the raw field left out of the inputs
PassThrough_Dropped(r, ch) ==
  /\ inputs' = [inputs EXCEPT ![r][ch] = Null]
  /\ pc' = [pc EXCEPT ![r] = AfterChannel(ch)]
  /\ UNCHANGED <<error, events>>

\* no validator: the raw field is used as it is
PassThrough(r, ch) ==
  /\ inputs' = [inputs EXCEPT ![r][ch] = req[r][ch]]
  /\ pc' = [pc EXCEPT ![r] = AfterChannel(ch)]
  /\ UNCHANGED <<error, events>>

\* contract.query ? contract.query.parse(req.query) : req.query, and the
\* same for params and body
ParseInput(r, ch) ==
  /\ pc[r] = ch
  /\ ch \in {"query", "params", "body"}
  /\ IF contractInput[ch]
     THEN \/ \E v \in ParsedValues : Parsed(r, ch, ch, req[r][ch], v)
          \/ \E issues \in IssueLists : ParseThrew(r, ch, req[r][ch], issues)
     ELSE PassThrough(r, ch)
  /\ UNCHANGED <<logger, configured, contractInput, req, logs, data, pending>>

\* contract.headers ? contract.headers.parse(req.headers)
\*                  : z.record(z.string()).parse(req.headers)
ParseHeaders(r) ==
  /\ pc[r] = "headers"
  /\ IF contractInput["headers"]
     THEN \/ \E v \in ParsedHeaders : Parsed(r, "headers", "headers", req[r].headers, v)
          \/ \E issues \in IssueLists : ParseThrew(r, "headers", req[r].headers, issues)
     ELSE IF RecordOfStringIssues(req[r].headers) = <<>>
          THEN Parsed(r, "headers", "z.record", req[r].headers, req[r].headers)
          ELSE ParseThrew(r, "z.record", req[r].headers, RecordOfStringIssues(req[r].headers))
  /\ UNCHANGED <<logger, configured, contractInput, req, logs, data, pending>>

\* contract.handler(inputs, ctx) is called
CallHandler(r) ==
  /\ pc[r] = "handler"
  /\ Emit(r, << Event("handler", inputs[r]) >>)
  /\ pc' = [pc EXCEPT ![r] = "in handler"]
  /\ UNCHANGED <<logger, configured, contractInput, req, inputs, logs, data, error, pending>>

\* logs.push replaced by logs.unshift
Push_Unshift(array, params) == << params >> \o array

\* logs.push(params)
Push(array, params) == Append(array, params)

\* CtxLog with the logs array created once by contract() instead of once per
\* request: every request's ctx.log pushes to the one array
CtxLog_SharedLogs(r, params) ==
  /\ pc[r] = "in handler"
  /\ Len(logs[r]) < MaxLogs
  /\ logs' = [q \in DOMAIN logs |-> Push(logs[q], params)]
  /\ Emit(r, << Event("ctx.log", params) >>)
  /\ UNCHANGED <<logger, configured, contractInput, pc, req, inputs, data, error, pending>>

\* the handler calls ctx.log(params)
CtxLog(r, params) ==
  /\ pc[r] = "in handler"
  /\ Len(logs[r]) < MaxLogs
  /\ logs' = [logs EXCEPT ![r] = Push(@, params)]
  /\ Emit(r, << Event("ctx.log", params) >>)
  /\ UNCHANGED <<logger, configured, contractInput, pc, req, inputs, data, error, pending>>

\* what ctx.error(message, code) throws
CtxErrorThrows(message, code) ==
  ContractError(message, IF code = Omitted THEN DefaultCode ELSE code)

\* the handler calls ctx.error(message, code) and lets it propagate
CtxError(r, message, code) ==
  /\ pc[r] = "in handler"
  /\ Emit(r, << Event("ctx.error", [message |-> message, code |-> code]) >>)
  /\ error' = [error EXCEPT ![r] = CtxErrorThrows(message, code)]
  /\ pc' = [pc EXCEPT ![r] = "catch"]
  /\ UNCHANGED <<logger, configured, contractInput, req, inputs, logs, data, pending>>

\* the handler's promise resolves with v
HandlerReturns(r, v) ==
  /\ pc[r] = "in handler"
  /\ Emit(r, << Event("handler returned", v) >>)
  /\ data' = [data EXCEPT ![r] = v]
  /\ pc' = [pc EXCEPT ![r] = "beforeResponse"]
  /\ UNCHANGED <<logger, configured, contractInput, req, inputs, logs, error, pending>>

\* the handler throws, or its promise rejects with, e
HandlerThrows(r, e) ==
  /\ pc[r] = "in handler"
  /\ Emit(r, << Event("handler threw", e) >>)
  /\ error' = [error EXCEPT ![r] = e]
  /\ pc' = [pc EXCEPT ![r] = "catch"]
  /\ UNCHANGED <<logger, configured, contractInput, req, inputs, logs, data, pending>>

\* reading e.stack in a .catch callback throws a TypeError when e is null or
\* undefined, and the promise .catch returned rejects with it
StackThrows(e) == e = Nullish

\* if (contract.beforeResponse) await contract.beforeResponse(data).catch(...)
BeforeResponse(r) ==
  /\ pc[r] = "beforeResponse"
  /\ IF contractInput["beforeResponse"]
     THEN \/ /\ Emit(r, << Event("beforeResponse", data[r]) >>)
             /\ pc' = [pc EXCEPT ![r] = "await beforeResponse"]
             /\ UNCHANGED error
          \/ \E e \in HookThrown :
               \* the hook throws before it returns a promise: nothing
               \* to call .catch on, the exception reaches the catch clause
               /\ Emit(r, << Event("beforeResponse", data[r]), Event("beforeResponse threw", e) >>)
               /\ error' = [error EXCEPT ![r] = e]
               /\ pc' = [pc EXCEPT ![r] = "catch"]
     ELSE /\ pc' = [pc EXCEPT ![r] = "respond"]
          /\ UNCHANGED <<events, error>>
  /\ UNCHANGED <<logger, configured, contractInput, req, inputs, logs, data, pending>>

BeforeResponseResolves(r) ==
  /\ pc[r] = "await beforeResponse"
  /\ pc' = [pc EXCEPT ![r] = "respond"]
  /\ UNCHANGED <<logger, configured, contractInput, req, inputs, logs, data, error, pending, events>>

BeforeResponseRejects(r, e) ==
  /\ pc[r] = "await beforeResponse"
  /\ IF StackThrows(e)
     THEN /\ Emit(r, << Event("beforeResponse rejected", e) >>)
          /\ error' = [error EXCEPT ![r] = TypeError]
          /\ pc' = [pc EXCEPT ![r] = "catch"]
     ELSE /\ Emit(r, << Event("beforeResponse rejected", e), Event("console.error", "beforeResponse") >>)
          /\ pc' = [pc EXCEPT ![r] = "respond"]
          /\ UNCHANGED error
  /\ UNCHANGED <<logger, configured, contractInput, req, inputs, logs, data, pending>>

\* res.json(body)
ResJson(r, body) == Emit(r, << Event("res.json", body) >>)

\* res.json({ ok: true, data, errors: [] })
Respond(r) ==
  /\ pc[r] = "respond"
  /\ ResJson(r, SuccessEnvelope(data[r]))
  /\ pc' = [pc EXCEPT ![r] = "finally"]
  /\ UNCHANGED <<logger, configured, contractInput, req, inputs, logs, data, error, pending>>

\* the branch of the catch clause an exception takes
Classify(e) ==
  IF e.kind = "zod" THEN "ZodError"
  ELSE IF e.kind = "contract" THEN "ContractError"
  ELSE "unexpected"

CatchZodError(r) ==
  /\ pc[r] = "catch"
  /\ Classify(error[r]) = "ZodError"
  /\ ResJson(r, ValidationEnvelope(error[r]))
  /\ pc' = [pc EXCEPT ![r] = "finally"]
  /\ UNCHANGED <<logger, configured, contractInput, req, inputs, logs, data, error, pending>>

CatchContractError(r) ==
  /\ pc[r] = "catch"
  /\ Classify(error[r]) = "ContractError"
  /\ ResJson(r, ContractErrorEnvelope(error[r]))
  /\ pc' = [pc EXCEPT ![r] = "finally"]
  /\ UNCHANGED <<logger, configured, contractInput, req, inputs, logs, data, error, pending>>

\* if (contract.onUnexpectedError) await contract.onUnexpectedError(error).catch(...)
CatchUnexpected(r) ==
  /\ pc[r] = "catch"
  /\ Classify(error[r]) = "unexpected"
  /\ IF contractInput["onUnexpectedError"]
     THEN \/ /\ Emit(r, << Event("onUnexpectedError", error[r]) >>)
             /\ pc' = [pc EXCEPT ![r] = "await onUnexpectedError"]
             /\ UNCHANGED pending
          \/ \E e \in Failures :
               \* the hook throws before it returns a promise: the
               \* exception leaves the catch clause
               /\ Emit(r, << Event("onUnexpectedError", error[r]), Event("onUnexpectedError threw", e) >>)
               /\ pending' = [pending EXCEPT ![r] = e]
               /\ pc' = [pc EXCEPT ![r] = "finally"]
     ELSE /\ pc' = [pc EXCEPT ![r] = "respond unexpected"]
          /\ UNCHANGED <<events, pending>>
  /\ UNCHANGED <<logger, configured, contractInput, req, inputs, logs, data, error>>

OnUnexpectedErrorResolves(r) ==
  /\ pc[r] = "await onUnexpectedError"
  /\ pc' = [pc EXCEPT ![r] = "respond unexpected"]
  /\ UNCHANGED <<logger, configured, contractInput, req, inputs, logs, data, error, pending, events>>

OnUnexpectedErrorRejects(r, e) ==
  /\ pc[r] = "await onUnexpectedError"
  /\ IF StackThrows(e)
     THEN /\ Emit(r, << Event("onUnexpectedError rejected", e) >>)
          /\ pending' = [pending EXCEPT ![r] = TypeError]
          /\ pc' = [pc EXCEPT ![r] = "finally"]
     ELSE /\ Emit(r, << Event("onUnexpectedError rejected", e), Event("console.error", "onUnexpectedError") >>)
          /\ pc' = [pc EXCEPT ![r] = "respond unexpected"]
          /\ UNCHANGED pending
  /\ UNCHANGED <<logger, configured, contractInput, req, inputs, logs, data, error>>

\* res.json({ ok: false, data: null, errors: ["Something went wrong"] })
RespondUnexpected(r) ==
  /\ pc[r] = "respond unexpected"
  /\ ResJson(r, UnexpectedEnvelope)
  /\ pc' = [pc EXCEPT ![r] = "finally"]
  /\ UNCHANGED <<logger, configured, contractInput, req, inputs, logs, data, error, pending>>

\* how the async function settles once the finally block completes normally:
\* an exception that left the catch clause is rethrown
Settled(r) == IF pending[r] = NoError THEN "done" ELSE "rejected"

\* $contractContext.logger(logs)
Deliver(r) == Event("logger", [fn |-> logger, logs |-> logs[r]])

\* the finally block without the test of $contractContext.logger: calling
\* undefined throws a TypeError out of the block
Finally_NoGuard(r) ==
  /\ pc[r] = "finally"
  /\ IF logger # Unset
     THEN /\ Emit(r, << Deliver(r) >>)
          /\ pc' = [pc EXCEPT ![r] = "await logger"]
          /\ UNCHANGED pending
     ELSE /\ pending' = [pending EXCEPT ![r] = TypeError]
          /\ pc' = [pc EXCEPT ![r] = "rejected"]
          /\ UNCHANGED events
  /\ UNCHANGED <<logger, configured, contractInput, req, inputs, logs, data, error>>

\* finally { if ($contractContext.logger) await $contractContext.logger(logs).catch(...)
\*           else console.log("No logger defined") }
Finally(r) ==
  /\ pc[r] = "finally"
  /\ IF logger # Unset
     THEN \/ /\ Emit(r, << Deliver(r) >>)
             /\ pc' = [pc EXCEPT ![r] = "await logger"]
             /\ UNCHANGED pending
          \/ \E e \in Failures :
               \* the sink throws before it returns a promise: the
               \* exception leaves the finally block
               /\ Emit(r, << Deliver(r), Event("logger threw", e) >>)
               /\ pending' = [pending EXCEPT ![r] = e]
               /\ pc' = [pc EXCEPT ![r] = "rejected"]
     ELSE /\ Emit(r, << Event("console.log", "No logger defined") >>)
          /\ pc' = [pc EXCEPT ![r] = Settled(r)]
          /\ UNCHANGED pending
  /\ UNCHANGED <<logger, configured, contractInput, req, inputs, logs, data, error>>

LoggerResolves(r) ==
  /\ pc[r] = "await logger"
  /\ Emit(r, << Event("logger resolved", Null) >>)
  /\ pc' = [pc EXCEPT ![r] = Settled(r)]
  /\ UNCHANGED <<logger, configured, contractInput, req, inputs, logs, data, error, pending>>

LoggerRejects(r, e) ==
  /\ pc[r] = "await logger"
  /\ IF StackThrows(e)
     THEN /\ Emit(r, << Event("logger rejected", e) >>)
          /\ pending' = [pending EXCEPT ![r] = TypeError]
          /\ pc' = [pc EXCEPT ![r] = "rejected"]
     ELSE /\ Emit(r, << Event("logger rejected", e), Event("console.error", "logger") >>)
          /\ pc' = [pc EXCEPT ![r] = Settled(r)]
          /\ UNCHANGED pending
  /\ UNCHANGED <<logger, configured, contractInput, req, inputs, logs, data, error>>

\* ----------------------------------------------------------- specification

Next ==
  \/ \E fn \in Sinks : DefineLogger(fn)
  \/ \E r \in OneRequest :
       \/ Request(r)
       \/ \E ch \in {"query", "params", "body"} : ParseInput(r, ch)
       \/ ParseHeaders(r)
       \/ CallHandler(r)
       \/ \E params \in LogEvents : CtxLog(r, params)
       \/ \E m \in Messages, c \in Codes \cup {Omitted} : CtxError(r, m, c)
       \/ \E v \in Results : HandlerReturns(r, v)
       \/ \E e \in Thrown : HandlerThrows(r, e)
       \/ BeforeResponse(r)
       \/ BeforeResponseResolves(r)
       \/ \E e \in Failures : BeforeResponseRejects(r, e)
       \/ Respond(r)
       \/ CatchZodError(r)
       \/ CatchContractError(r)
       \/ CatchUnexpected(r)
       \/ OnUnexpectedErrorResolves(r)
       \/ \E e \in Failures : OnUnexpectedErrorRejects(r, e)
       \/ RespondUnexpected(r)
       \/ Finally(r)
       \/ LoggerResolves(r)
       \/ \E e \in Failures : LoggerRejects(r, e)

Spec == Init /\ [][Next]_vars

\* ------------------------------------------- two requests, one adapter

\* a contract with both hooks and no validator of its own
HooksOnly ==
  [m \in Members |-> m \in {"onUnexpectedError", "beforeResponse"}]

\* what the handler logs for each of the two requests
LogEventOf ==
  [r \in TwoRequests |->
     IF r = "r1" THEN [level |-> "info", message |-> "m1", tags |-> <<"abc">>]
     ELSE [level |-> "error", message |-> "m2", tags |-> <<>>]]

InitConcurrent ==
  /\ contractInput = HooksOnly
  /\ Loaded(TwoRequests)

\* express calls the one handler for two requests; each await is a point
\* where the other request may run
NextConcurrent ==
  \/ \E fn \in {"sinkA"} : DefineLogger(fn)
  \/ \E r \in TwoRequests :
       \/ Request(r)
       \/ \E ch \in {"query", "params", "body"} : ParseInput(r, ch)
       \/ ParseHeaders(r)
       \/ CallHandler(r)
       \/ CtxLog(r, LogEventOf[r])
       \/ CtxError(r, <<"bad input">>, Omitted)
       \/ HandlerReturns(r, "A")
       \/ HandlerThrows(r, OtherError("boom"))
       \/ BeforeResponse(r)
       \/ BeforeResponseResolves(r)
       \/ BeforeResponseRejects(r, OtherError("failed"))
       \/ Respond(r)
       \/ CatchZodError(r)
       \/ CatchContractError(r)
       \/ CatchUnexpected(r)
       \/ OnUnexpectedErrorResolves(r)
       \/ OnUnexpectedErrorRejects(r, OtherError("failed"))
       \/ RespondUnexpected(r)
       \/ Finally(r)
       \/ LoggerResolves(r)
       \/ LoggerRejects(r, OtherError("failed"))

SpecConcurrent == InitConcurrent /\ [][NextConcurrent]_vars

\* ------------------------------------------------------ reading the record

RECURSIVE Select(_, _)
\* the events of a record whose op is in ops, in order
Select(record, ops) ==
  IF record = <<>> THEN <<>>
  ELSE (IF Head(record).op \in ops THEN << Head(record) >> ELSE <<>>)
       \o Select(Tail(record), ops)

Args(record) == [i \in 1..Len(record) |-> record[i].arg]

\* the bodies res.json was given, in order
Written(r) == Args(Select(events[r], {"res.json"}))

\* how often op happened in the request
Count(r, op) == Len(Select(events[r], {op}))

Validators == {"query", "params", "body", "headers", "z.record"}

\* the validator calls of the request, in order
ParseCalls(r) == Select(events[r], Validators)

\* some validator of the request threw
ValidationFailed(r) ==
  \E i \in 1..Len(ParseCalls(r)) : ParseCalls(r)[i].arg.result = "ZodError"

\* the request is past its try and catch clauses
Decided(r) == pc[r] \in {"finally", "await logger", "done", "rejected"}

\* the async function has settled
Completed(r) == pc[r] \in {"done", "rejected"}

\* ------------------------------------------------------------------ claims

\* C1: whenever an input validator of a request has failed (query, params,
\* body, the explicit headers validator or the default headers validation),
\* the handler is never invoked for that request, every response written is
\* an envelope with ok = false and data = null, and once the catch clause is
\* over exactly one such response has been written.
C1_ValidationFailureEnvelope ==
  \A r \in Requests :
    ValidationFailed(r) =>
      /\ Count(r, "handler") = 0
      /\ \A i \in 1..Len(Written(r)) :
           Written(r)[i].ok = FALSE /\ Written(r)[i].data = Null
      /\ Decided(r) => Len(Written(r)) = 1

\* a request completed after the default headers validation rejected headers
\* with two non-string values
C1_Witness ==
  \E r \in Requests :
    /\ Completed(r)
    /\ ValidationFailed(r)
    /\ Count(r, "z.record") = 1
    /\ Len(Written(r)) = 1
    /\ Len(Written(r)[1].errors) = 2

Rank(op) ==
  CASE op = "query" -> 1
    [] op = "params" -> 2
    [] op = "body" -> 3
    [] op \in {"headers", "z.record"} -> 4

\* the validator that parses channel ch under the contract
ValidatorOf(ch) ==
  IF ch = "headers" /\ ~contractInput["headers"] THEN "z.record" ELSE ch

\* the channels that have a validator under the contract, in the fixed order
RECURSIVE ValidatedFrom(_)
ValidatedFrom(i) ==
  IF i > Len(Channels) THEN <<>>
  ELSE (IF Channels[i] = "headers" \/ contractInput[Channels[i]]
        THEN << ValidatorOf(Channels[i]) >> ELSE <<>>)
       \o ValidatedFrom(i + 1)

\* C2: the validators are invoked in the order query, params, body, headers,
\* each at most once; a validator that fails is the last one invoked (no
\* later channel is validated), the response then carries the errors of that
\* channel only, and the handler is called only after every validator of the
\* contract has been invoked, in that order.
C2_FixedOrderFirstFailure ==
  \A r \in Requests :
    LET parses == ParseCalls(r) IN
      /\ \A i, j \in 1..Len(parses) :
           i < j => Rank(parses[i].op) < Rank(parses[j].op)
      /\ \A i \in 1..Len(parses) :
           parses[i].arg.result = "ZodError" =>
             /\ i = Len(parses)
             /\ Decided(r) =>
                  Written(r) = << Envelope(FALSE, Null,
                                    Split(FromZodError(ZodError(parses[i].arg.issues)))) >>
      /\ Count(r, "handler") > 0 =>
           [i \in 1..Len(parses) |-> parses[i].op] = ValidatedFrom(1)

\* with all four validators configured, params failed after query passed:
\* body and headers were never parsed and the response is that of params
C2_Witness ==
  \E r \in Requests :
    /\ Completed(r)
    /\ \A ch \in {"query", "params", "body", "headers"} : contractInput[ch]
    /\ Len(ParseCalls(r)) = 2
    /\ ParseCalls(r)[2].op = "params"
    /\ ParseCalls(r)[2].arg.result = "ZodError"
    /\ Len(ParseCalls(r)[2].arg.issues) = 2
    /\ Len(Written(r)) = 1

\* the events of the request with this op
Happened(r, op) == Select(events[r], {op})

\* C3: for every handler that raises an exception that is not a Business
\* Error, whatever its kind, the response is exactly
\* {ok:false, data:null, errors:["Something went wrong"]}, and a configured
\* onUnexpectedError is invoked exactly once, with the original error.
C3_UnexpectedErrorEnvelope ==
  \A r \in Requests :
    \A i \in 1..Len(Happened(r, "handler threw")) :
      LET e == Happened(r, "handler threw")[i].arg IN
        (e.kind # "contract" /\ Decided(r)) =>
          /\ Written(r) = << Envelope(FALSE, Null, << <<"Something went wrong">> >>) >>
          /\ contractInput["onUnexpectedError"] =>
               Args(Happened(r, "onUnexpectedError")) = << e >>

\* C4: a handler that calls ctx.error(m, c) (c possibly left out, which
\* makes the code 400) raises a ContractError carrying m and the code, and the
\* response is exactly {ok:false, data:null, errors:[m]}: one entry, the
\* message unsplit, no field or entry for the code.
C4_BusinessErrorEnvelope ==
  \A r \in Requests :
    \A i \in 1..Len(Happened(r, "ctx.error")) :
      LET call == Happened(r, "ctx.error")[i].arg IN
        /\ error[r] = [kind |-> "contract", message |-> call.message,
                       code |-> IF call.code = Omitted THEN 400 ELSE call.code]
        /\ Decided(r) => Written(r) = << [ok |-> FALSE, data |-> Null, errors |-> << call.message >>] >>

\* a request completed after ctx.error was called without a code and with a
\* message that contains the issue separator
C4_Witness ==
  \E r \in Requests :
    /\ Completed(r)
    /\ Args(Happened(r, "ctx.error")) = << [message |-> <<"a", ";", ";", ";", "b">>, code |-> Omitted] >>
    /\ error[r].code = 400
    /\ Len(Written(r)) = 1

\* C5: when all input validation passes and the handler returns r, the
\* response is {ok:true, data:r, errors:[]}, whatever the later stages do.
C5_SuccessEnvelope ==
  \A r \in Requests :
    \A i \in 1..Len(Happened(r, "handler returned")) :
      Decided(r) =>
        Written(r) = << [ok |-> TRUE, data |-> Happened(r, "handler returned")[i].arg, errors |-> <<>>] >>

\* the events given to ctx.log, in call order
Appended(r) == Args(Happened(r, "ctx.log"))

\* what the sink was called with
Deliveries(r) == Args(Happened(r, "logger"))

\* the request is past the test of the logger slot in its finally block
Flushed(r) == pc[r] \in {"await logger", "done", "rejected"}

\* the request leaves the test of the logger slot in this step
Flushing(r) == pc[r] = "finally" /\ pc'[r] # "finally"

\* C6: the sink is never called twice for a request; what it is given is
\* exactly the events given to ctx.log, in call order (none: the empty
\* sequence); past the flush either the sink was called once or the
\* no-logger notice was printed once; and a request that reaches its flush
\* with a sink configured calls that sink, on every branch.
C6_DeliveredExactlyOnce ==
  /\ [](\A r \in Requests :
          /\ Len(Deliveries(r)) <= 1
          /\ \A i \in 1..Len(Deliveries(r)) : Deliveries(r)[i].logs = Appended(r)
          /\ Flushed(r) => Len(Deliveries(r)) + Count(r, "console.log") = 1)
  /\ [][\A r \in Requests :
          (Flushing(r) /\ logger # Unset) =>
            /\ Len(Deliveries(r)') = 1
            /\ Deliveries(r)'[1] = [fn |-> logger, logs |-> Appended(r)]]_vars

\* a handler logged two different events and then raised an unexpected
\* error; the sink received the two events in that order
C6_Witness ==
  \E r \in Requests :
    /\ Completed(r)
    /\ Count(r, "handler threw") = 1
    /\ Classify(error[r]) = "unexpected"
    /\ Len(Appended(r)) = 2
    /\ Appended(r)[1] # Appended(r)[2]
    /\ Len(Deliveries(r)) = 1
    /\ Deliveries(r)[1].logs = Appended(r)

\* beforeResponse was called and threw, or its promise rejected
BeforeResponseFailed(r) ==
  Count(r, "beforeResponse threw") + Count(r, "beforeResponse rejected") > 0

\* C7: when the handler returned r and beforeResponse fails, however it
\* fails, the response is still {ok:true, data:r, errors:[]} and
\* onUnexpectedError is not invoked.
C7_BeforeResponseFailureMasked ==
  \A r \in Requests :
    (BeforeResponseFailed(r) /\ Decided(r)) =>
      /\ Written(r) = << [ok |-> TRUE, data |-> data[r], errors |-> <<>>] >>
      /\ Count(r, "onUnexpectedError") = 0

\* onUnexpectedError was called and threw, or its promise rejected
OnUnexpectedErrorFailed(r) ==
  Count(r, "onUnexpectedError threw") + Count(r, "onUnexpectedError rejected") > 0

\* C8: when onUnexpectedError fails, however it fails, the response
\* {ok:false, data:null, errors:["Something went wrong"]} is still written,
\* the log flush still runs and the handling task completes without raising.
C8_OnUnexpectedErrorFailureMasked ==
  \A r \in Requests :
    OnUnexpectedErrorFailed(r) =>
      /\ Decided(r) => Written(r) = << Envelope(FALSE, Null, << <<"Something went wrong">> >>) >>
      /\ Flushed(r) => Len(Deliveries(r)) + Count(r, "console.log") = 1
      /\ pc[r] # "rejected"

\* the sink was called and threw, or its promise rejected
SinkFailed(r) == Count(r, "logger threw") + Count(r, "logger rejected") > 0

\* the position of the first event with this op in the request's record
FirstIndex(r, op) == CHOOSE i \in 1..Len(events[r]) :
  events[r][i].op = op /\ \A j \in 1..(i - 1) : events[r][j].op # op

\* C9: a failure of the sink, however it fails, leaves the response that
\* was decided as it is (nothing is written after the sink was called) and
\* the handling task completes without raising.
C9_SinkFailureMasked ==
  \A r \in Requests :
    SinkFailed(r) =>
      /\ \A i \in 1..Len(events[r]) :
           events[r][i].op = "res.json" => i < FirstIndex(r, "logger")
      /\ pc[r] # "rejected"

\* the exception that reached the catch clause, as the validators, the
\* handler and beforeResponse produced it (no sink or logger slot involved)
Raised(r) ==
  IF ValidationFailed(r)
  THEN [kind |-> "zod", issues |-> ParseCalls(r)[Len(ParseCalls(r))].arg.issues]
  ELSE IF Count(r, "ctx.error") > 0
  THEN [kind |-> "contract", message |-> Happened(r, "ctx.error")[1].arg.message]
  ELSE IF Count(r, "handler threw") > 0 THEN Happened(r, "handler threw")[1].arg
  ELSE IF Count(r, "beforeResponse threw") > 0 THEN Happened(r, "beforeResponse threw")[1].arg
  ELSE IF Count(r, "beforeResponse rejected") > 0
          /\ Happened(r, "beforeResponse rejected")[1].arg.kind = "nullish"
  THEN [kind |-> "other"]
  ELSE [kind |-> "none"]

\* the responses a request has written once its catch clause is over, as a
\* function of what the validators, the handler and the hooks did
ResponseOf(r) ==
  LET e == Raised(r) IN
    IF e.kind = "none"
    THEN << [ok |-> TRUE, data |-> Happened(r, "handler returned")[1].arg, errors |-> <<>>] >>
    ELSE IF e.kind = "zod"
    THEN << [ok |-> FALSE, data |-> Null, errors |-> Split(FromZodError(e))] >>
    ELSE IF e.kind = "contract"
    THEN << [ok |-> FALSE, data |-> Null, errors |-> << e.message >>] >>
    ELSE IF Count(r, "onUnexpectedError threw") > 0
            \/ (Count(r, "onUnexpectedError rejected") > 0
                /\ Happened(r, "onUnexpectedError rejected")[1].arg.kind = "nullish")
    THEN <<>>
    ELSE << [ok |-> FALSE, data |-> Null, errors |-> << <<"Something went wrong">> >>] >>

\* C10: the response of a request is the same function of what the
\* validators, the handler and the hooks did whether or not a sink is
\* configured; and a request that reaches its flush with no sink configured
\* attempts no delivery, writes nothing more, prints the notice and settles
\* in that very step (raising only what already left the catch clause).
C10_NoSinkSameResponse ==
  /\ [](\A r \in Requests : Decided(r) => Written(r) = ResponseOf(r))
  /\ [][\A r \in Requests :
          (Flushing(r) /\ logger = Unset) =>
            /\ pc'[r] = (IF pending[r] = NoError THEN "done" ELSE "rejected")
            /\ pending'[r] = pending[r]
            /\ Written(r)' = Written(r)
            /\ Deliveries(r)' = <<>>
            /\ Count(r, "console.log")' = 1]_vars

\* requests completed with no sink ever configured: a success response was
\* written and the notice printed, nothing was delivered
C10_Witness ==
  \E r \in Requests :
    /\ logger = Unset
    /\ pc[r] = "done"
    /\ Len(Written(r)) = 1
    /\ Written(r)[1].ok
    /\ Deliveries(r) = <<>>
    /\ Count(r, "console.log") = 1

\* C11: every envelope given to res.json, on any path, has the three fields
\* ok, data, errors and is of one of two shapes: ok = true with no errors and
\* the value the handler returned as data, or ok = false with data null and
\* at least one error message.
C11_EnvelopeShape ==
  \A r \in Requests :
    \A i \in 1..Len(Written(r)) :
      LET body == Written(r)[i] IN
        /\ DOMAIN body = {"ok", "data", "errors"}
        /\ body.ok \in BOOLEAN
        /\ body.ok =>
             /\ body.errors = <<>>
             /\ Args(Happened(r, "handler returned")) = << body.data >>
        /\ ~body.ok =>
             /\ body.data = Null
             /\ Len(body.errors) >= 1

\* a success envelope carrying the handler's value "B" was written after a
\* rejection of beforeResponse was caught and reported
C11_Witness ==
  \E r \in Requests :
    /\ Completed(r)
    /\ Count(r, "beforeResponse rejected") = 1
    /\ Written(r) = << [ok |-> TRUE, data |-> "B", errors |-> <<>>] >>

\* the request has a header whose value is not a string
NonStringHeader(r) ==
  \E i \in 1..Len(req[r].headers) : req[r].headers[i].type # "string"

\* C12: query, params and body that have no validator reach the handler as
\* the raw request fields, without any parse call. Headers that have no
\* validator are parsed by the default z.record(z.string()) and by nothing
\* else; when the contract has no validator at all, a request with a
\* non-string header value gets the validation envelope of the default
\* validation and its handler is never called, and all-string headers reach
\* the handler unchanged. When the contract has a headers validator, the
\* default validation is never applied.
C12_PassThroughAndDefaultHeaders ==
  \A r \in Requests :
    /\ \A ch \in {"query", "params", "body"} :
         ~contractInput[ch] =>
           /\ Count(r, ch) = 0
           /\ \A i \in 1..Len(Happened(r, "handler")) :
                Happened(r, "handler")[i].arg[ch] = req[r][ch]
    /\ ~contractInput["headers"] =>
         /\ Count(r, "headers") = 0
         /\ Count(r, "z.record") <= 1
         /\ \A i \in 1..Len(Happened(r, "z.record")) :
              Happened(r, "z.record")[i].arg.raw = req[r].headers
         /\ \A i \in 1..Len(Happened(r, "handler")) :
              /\ Count(r, "z.record") = 1
              /\ ~NonStringHeader(r)
              /\ Happened(r, "handler")[i].arg.headers = req[r].headers
         /\ (NonStringHeader(r) /\ \A ch \in {"query", "params", "body"} : ~contractInput[ch]) =>
              /\ Count(r, "handler") = 0
              /\ Decided(r) =>
                   /\ Count(r, "z.record") = 1
                   /\ Written(r) =
                        << [ok |-> FALSE, data |-> Null,
                            errors |-> [i \in 1..Len(RecordOfStringIssues(req[r].headers)) |->
                                          IF i = 1 THEN <<"Validation error">> \o <<": ">>
                                                        \o IssueText(RecordOfStringIssues(req[r].headers)[i])
                                          ELSE IssueText(RecordOfStringIssues(req[r].headers)[i])]] >>
    /\ contractInput["headers"] =>
         /\ Count(r, "z.record") = 0
         /\ \A i \in 1..Len(Happened(r, "handler")) :
              /\ Count(r, "headers") = 1
              /\ Happened(r, "headers")[1].arg.raw = req[r].headers

\* under a contract without any validator, a request whose headers hold a
\* number and an array completed with the two-issue validation envelope and
\* no handler call
C12_Witness ==
  \E r \in Requests :
    /\ \A ch \in {"query", "params", "body", "headers"} : ~contractInput[ch]
    /\ Completed(r)
    /\ req[r].headers = MixedHeaders
    /\ Count(r, "handler") = 0
    /\ Written(r) =
         << [ok |-> FALSE, data |-> Null,
             errors |-> << <<"Validation error", ": ", "Expected string, received ", "number",
                             " at \"", "x-n", "\"">>,
                           <<"Expected string, received ", "array", " at \"", "set-cookie", "\"">> >>] >>

\* the latest ZodError the request's catch clause was entered with: the one
\* thrown by a validator, or the one the handler or beforeResponse raised
ZodIssues(r) == error[r].issues

\* C13: when a request is answered by the validation branch, the errors
\* of the envelope are as many as the issues of the ZodError, in the same
\* order, the i-th entry being the text of the i-th issue (the first one
\* after the "Validation error: " prefix), whatever the message of the issue
\* contains, the separator ";;;" included.
C13_OneErrorPerIssue ==
  \A r \in Requests :
    (Decided(r) /\ error[r].kind = "zod" /\ Len(Written(r)) = 1) =>
      LET errors == Written(r)[1].errors IN
        /\ Len(errors) = Len(ZodIssues(r))
        /\ \A i \in 1..Len(errors) :
             errors[i] = IF i = 1 THEN <<"Validation error", ": ">> \o IssueText(ZodIssues(r)[i])
                         ELSE IssueText(ZodIssues(r)[i])

\* C14: the logger slot always holds the argument of the latest defineLogger
\* call (unset before the first one), a defineLogger call never leaves the
\* slot unset, and a request that passes the test of its finally block calls
\* the sink configured latest at that step, or no sink when none is
\* configured yet.
C14_LastWriterWinsReadAtFlush ==
  /\ [](logger = configured)
  /\ [][logger # Unset => logger' # Unset]_vars
  /\ [][\A r \in Requests :
          Flushing(r) =>
            IF configured = Unset
            THEN Deliveries(r)' = Deliveries(r)
            ELSE Deliveries(r)' = Deliveries(r) \o << [fn |-> configured, logs |-> logs[r]] >>]_vars

\* a request was flushed to sinkB, which was configured after sinkA, and
\* sinkA was configured again after the flush
C14_Witness ==
  \E r \in Requests :
    /\ Completed(r)
    /\ Len(Deliveries(r)) = 1
    /\ Deliveries(r)[1].fn = "sinkB"
    /\ logger = "sinkA"

\* how often the sink call of the request has settled: returned a promise
\* that resolved or rejected, or thrown
SinkSettled(r) ==
  Count(r, "logger resolved") + Count(r, "logger rejected") + Count(r, "logger threw")

\* C15: on every path, when the sink is called for a request the response
\* of that request has been written, exactly once, before the call; and the
\* async function of a request whose sink was called settles only after the
\* sink call has settled.
C15_ResponseBeforeFlushAwaited ==
  \A r \in Requests :
    /\ \A i \in 1..Len(events[r]) :
         events[r][i].op = "logger" =>
           Len(Select(SubSeq(events[r], 1, i - 1), {"res.json"})) = 1
    /\ SinkSettled(r) <= Len(Deliveries(r))
    /\ Completed(r) => SinkSettled(r) = Len(Deliveries(r))

\* the elements of a sequence
Range(seq) == { seq[i] : i \in 1..Len(seq) }

\* C16: with two requests handled concurrently by one adapter, the logs
\* array of each request holds exactly the events its own handler gave to
\* ctx.log, in order, each sink call is given exactly those events, and no
\* event logged for the other request only is ever among them.
C16_LogsNeverMix ==
  \A r \in Requests :
    /\ logs[r] = Appended(r)
    /\ \A i \in 1..Len(Deliveries(r)) :
         /\ Deliveries(r)[i].logs = Appended(r)
         /\ \A q \in Requests \ {r} :
              Range(Deliveries(r)[i].logs) \cap (Range(Appended(q)) \ Range(Appended(r))) = {}

\* the first request awaits the sink, which was given its one event, while
\* the second request is in its handler and has logged its own event twice
C16_Witness ==
  /\ Requests = TwoRequests
  /\ pc["r1"] = "await logger"
  /\ Appended("r1") = << LogEventOf["r1"] >>
  /\ Deliveries("r1") = << [fn |-> "sinkA", logs |-> << LogEventOf["r1"] >>] >>
  /\ pc["r2"] = "in handler"
  /\ Appended("r2") = << LogEventOf["r2"], LogEventOf["r2"] >>

\* C17: beforeResponse is called only after the handler has returned, with
\* the value it returned, and before any response is written;
\* onUnexpectedError is called only after the handler has raised an error
\* that is not a business error; a request whose validation failed or whose
\* handler called ctx.error calls neither hook; and no request calls both.
C17_HooksGatedByOutcome ==
  \A r \in Requests :
    /\ \A i \in 1..Len(events[r]) :
         events[r][i].op = "beforeResponse" =>
           /\ Args(Select(SubSeq(events[r], 1, i - 1), {"handler returned"})) = << events[r][i].arg >>
           /\ Select(SubSeq(events[r], 1, i - 1), {"res.json"}) = <<>>
    /\ \A i \in 1..Len(events[r]) :
         events[r][i].op = "onUnexpectedError" =>
           \E j \in 1..(i - 1) :
             /\ events[r][j].op = "handler threw"
             /\ events[r][j].arg.kind # "contract"
    /\ (ValidationFailed(r) \/ Count(r, "ctx.error") > 0) =>
         Count(r, "beforeResponse") + Count(r, "onUnexpectedError") = 0
    /\ ~(Count(r, "beforeResponse") > 0 /\ Count(r, "onUnexpectedError") > 0)

\* C18: once the catch clause of a request is over, what it has written is
\* the one envelope fixed by the validation results, the kind of the
\* handler's outcome, its result and its business-error message (the
\* validation envelope of the failing validator, the success envelope of the
\* returned value, the business envelope of the message, and "Something
\* went wrong" for any other exception of the handler): the code of the
\* business error, the content of an unexpected error, the events logged,
\* the logger slot and the outcomes of the hooks and of the sink make no
\* difference.
C18_EnvelopeDependsOnOutcomeOnly ==
  \A r \in Requests :
    Decided(r) =>
      Written(r) =
        IF ValidationFailed(r)
        THEN << [ok |-> FALSE, data |-> Null,
                 errors |-> Split(FromZodError(ZodError(ParseCalls(r)[Len(ParseCalls(r))].arg.issues)))] >>
        ELSE IF Count(r, "handler returned") > 0
        THEN << [ok |-> TRUE, data |-> Happened(r, "handler returned")[1].arg, errors |-> <<>>] >>
        ELSE IF Count(r, "ctx.error") > 0
        THEN << [ok |-> FALSE, data |-> Null, errors |-> << Happened(r, "ctx.error")[1].arg.message >>] >>
        ELSE IF Count(r, "handler threw") > 0 /\ Happened(r, "handler threw")[1].arg.kind = "contract"
        THEN << [ok |-> FALSE, data |-> Null, errors |-> << Happened(r, "handler threw")[1].arg.message >>] >>
        ELSE << [ok |-> FALSE, data |-> Null, errors |-> << <<"Something went wrong">> >>] >>

\* the stages of a request: the validators, the handler, the hooks, the sink
Stages == Validators \cup {"handler", "beforeResponse", "onUnexpectedError", "logger"}

\* C19: on every outcome branch a request whose async function has settled
\* has written a response (a settled function writes nothing later, so this
\* is what "eventually writes a response" requires of it), and no stage is
\* retried: each validator, the handler, each hook and the sink is called at
\* most once per request.
C19_TerminatesWithResponseNoRetry ==
  \A r \in Requests :
    /\ \A op \in Stages : Count(r, op) <= 1
    /\ Completed(r) => Len(Written(r)) >= 1

\* C20: res.json is never called twice for a request, and once the try
\* statement of the request is over it has been called exactly once,
\* whatever the validators, the handler, the hooks and the sink did.
C20_ResponseWrittenExactlyOnce ==
  \A r \in Requests :
    /\ Count(r, "res.json") <= 1
    /\ Decided(r) => Count(r, "res.json") = 1

====
